---- MODULE Spec2Model ----
(***************************************************************************)
(* Model of src/src/server.py: the exchange registry, the process-wide     *)
(* instance cache, get_exchange, format_ticker and handle_call_tool with   *)
(* its try / except ccxt.BaseError / finally structure.                    *)
(*                                                                         *)
(* Strings that the code converts (lower(), upper(), split()) are          *)
(* sequences of one-character strings, so the conversions are computed.    *)
(* Python values of dynamic type are tagged records (PyStr, PyInt, PyNone).*)
(* A task sits at the await points of the handler: "fetch" (awaiting       *)
(* fetch_ticker / fetch_tickers) and "close" (awaiting instance.close());  *)
(* the code between two await points runs in one step.                     *)
(***************************************************************************)
EXTENDS Integers, Sequences, FiniteSets, TLC

\* ------------------------------------------------------------------ bounds
MaxInst == 3        \* exchange instances constructed in one run
MaxTickers == 2     \* tickers returned by fetch_tickers
MaxVol == 1         \* largest baseVolume of a ticker
NumTasks == 2       \* invocations that may be in progress at once (SpecConc)

DefaultLimit == 5

Tasks == 1..NumTasks
SeqTasks == {1}

\* ----------------------------------------------------------- Python values
PyStr(s) == [type |-> "str", v |-> s]
PyInt(n) == [type |-> "int", v |-> n]
PyNone == [type |-> "none"]

\* dict.get(key, default)
get(d, k, default) == IF k \in DOMAIN d THEN d[k] ELSE default

UpperAlpha == <<"A","B","C","D","E","F","G","H","I","J","K","L","M",
                "N","O","P","Q","R","S","T","U","V","W","X","Y","Z">>
LowerAlpha == <<"a","b","c","d","e","f","g","h","i","j","k","l","m",
                "n","o","p","q","r","s","t","u","v","w","x","y","z">>

MapChar(from, to, c) ==
    IF \E j \in 1..Len(from) : from[j] = c
    THEN to[CHOOSE j \in 1..Len(from) : from[j] = c]
    ELSE c

\* str.lower() and str.upper()
lower(s) == [i \in 1..Len(s) |-> MapChar(UpperAlpha, LowerAlpha, s[i])]
upper(s) == [i \in 1..Len(s) |-> MapChar(LowerAlpha, UpperAlpha, s[i])]

\* s.split('/'): the fields of s between the '/' characters
RECURSIVE split(_)
split(s) ==
    IF \E i \in 1..Len(s) : s[i] = "/"
    THEN LET i == CHOOSE j \in 1..Len(s) :
                     s[j] = "/" /\ \A k \in 1..(j-1) : s[k] # "/"
         IN <<SubSeq(s, 1, i-1)>> \o split(SubSeq(s, i+1, Len(s)))
    ELSE <<s>>

\* ---------------------------------------------------------------- registry
SUPPORTED_EXCHANGES == <<
    [key |-> <<"b","i","n","a","n","c","e">>,      cls |-> "binance"],
    [key |-> <<"c","o","i","n","b","a","s","e">>,  cls |-> "coinbase"],
    [key |-> <<"k","r","a","k","e","n">>,          cls |-> "kraken"],
    [key |-> <<"k","u","c","o","i","n">>,          cls |-> "kucoin"],
    [key |-> <<"f","t","x">>,                      cls |-> "hyperliquid"],
    [key |-> <<"h","u","o","b","i">>,              cls |-> "huobi"],
    [key |-> <<"b","i","t","f","i","n","e","x">>,  cls |-> "bitfinex"],
    [key |-> <<"b","y","b","i","t">>,              cls |-> "bybit"],
    [key |-> <<"o","k","x">>,                      cls |-> "okx"],
    [key |-> <<"m","e","x","c">>,                  cls |-> "mexc"] >>

RegistryKeys == { SUPPORTED_EXCHANGES[i].key : i \in 1..Len(SUPPORTED_EXCHANGES) }

ClassOf(k) ==
    SUPPORTED_EXCHANGES[CHOOSE i \in 1..Len(SUPPORTED_EXCHANGES) :
                            SUPPORTED_EXCHANGES[i].key = k].cls

\* ------------------------------------------------------------------- state
VARIABLES
    exchange_instances, \* the cache: insertion-ordered <<[key, inst]>>
    instances,          \* every instance constructed so far: [key, cls, live, closeCalled]
    pc,                 \* per task: "idle", "fetch", "close", "done"
    name,               \* per task: the tool name of the invocation
    arguments,          \* per task: the argument mapping of the invocation
    exchange,           \* per task: the local `exchange` (an instance id, 0 when unset)
    completion,         \* per task: how the try/except part completed, then the final outcome
    iter,               \* per task: the dict-values iterator of the cleanup loop
    closing,            \* per task: the instance whose close() is awaited
    hist                \* per task: what the invocation did: the instances it built and
                        \* found cached, its fetch calls and their tickers, the errors raised

vars == <<exchange_instances, instances, pc, name, arguments, exchange,
          completion, iter, closing, hist>>

CacheKeys(cache) == { cache[i].key : i \in 1..Len(cache) }
CacheInsts(cache) == { cache[i].inst : i \in 1..Len(cache) }
CacheLookup(cache, k) == cache[CHOOSE i \in 1..Len(cache) : cache[i].key = k].inst

\* --------------------------------------------------------------- completions
Return(v) == [kind |-> "return", value |-> v]
Raise(e) == [kind |-> "raise",  exc |-> e]
NoCompletion == [kind |-> "none"]

TextContent(t) == <<[type |-> "text", text |-> t]>>

NoIter == [used |-> 0, pos |-> 0]
NoHist == [built |-> {}, fetches |-> 0, saw |-> {}, raised |-> <<>>, tickers |-> <<>>]

\* exchange_instances[k] = inst: a new key goes last, a present key keeps its place
CachePut(cache, k, inst) ==
    IF k \in CacheKeys(cache)
    THEN [i \in 1..Len(cache) |->
             IF cache[i].key = k THEN [key |-> k, inst |-> inst] ELSE cache[i]]
    ELSE Append(cache, [key |-> k, inst |-> inst])

NewInstance(id) == [key |-> id, cls |-> ClassOf(id), live |-> TRUE, closeCalled |-> FALSE]

\* ------------------------------------------------------------- get_exchange
\* get_exchange looking the cache up under the identifier as given, not lowercased
get_exchange_raw_lookup(exchange_id, cache, insts) ==
    LET id == lower(exchange_id) IN
    IF id \notin RegistryKeys
    THEN [err |-> "ValueError: Unsupported exchange", inst |-> 0,
          cache |-> cache, insts |-> insts, built |-> {}]
    ELSE IF exchange_id \notin CacheKeys(cache)
    THEN LET n == Len(insts) + 1 IN
         [err |-> "none", inst |-> n,
          cache |-> CachePut(cache, id, n),
          insts |-> Append(insts, NewInstance(id)),
          built |-> {n}]
    ELSE [err |-> "none", inst |-> CacheLookup(cache, id),
          cache |-> cache, insts |-> insts, built |-> {}]

\* The result of get_exchange(exchange_id) on the cache and the instance table:
\* the error raised (or "none"), the instance returned, and both tables after.
get_exchange(exchange_id, cache, insts) ==
    LET id == lower(exchange_id) IN
    IF id \notin RegistryKeys
    THEN [err |-> "ValueError: Unsupported exchange", inst |-> 0,
          cache |-> cache, insts |-> insts, built |-> {}]
    ELSE IF id \notin CacheKeys(cache)
    THEN LET n == Len(insts) + 1 IN
         [err |-> "none", inst |-> n,
          cache |-> CachePut(cache, id, n),
          insts |-> Append(insts, NewInstance(id)),
          built |-> {n}]
    ELSE [err |-> "none", inst |-> CacheLookup(cache, id),
          cache |-> cache, insts |-> insts, built |-> {}]

\* ------------------------------------------------------------ format_ticker
format_ticker(ticker, exchange_id) ==
    [exchange |-> upper(exchange_id),
     symbol   |-> get(ticker, "symbol", PyNone),
     last     |-> get(ticker, "last", PyStr(<<"N","/","A">>)),
     volume   |-> get(ticker, "baseVolume", PyStr(<<"N","/","A">>))]

\* --------------------------------------------------------- get-top-volumes
\* key=lambda x: float(x.get('baseVolume', 0) or 0)
VolumeKey(x) ==
    LET v == get(x, "baseVolume", PyInt(0)) IN
    IF v.type = "int" /\ v.v # 0 THEN v.v ELSE 0

Reverse(s) == [i \in 1..Len(s) |-> s[Len(s) + 1 - i]]

\* stable insertion: x goes after every element whose key is <= its key
InsertAsc(x, s) ==
    LET n == Cardinality({ i \in 1..Len(s) : VolumeKey(s[i]) <= VolumeKey(x) })
    IN SubSeq(s, 1, n) \o <<x>> \o SubSeq(s, n + 1, Len(s))

RECURSIVE StableSortAsc(_)
StableSortAsc(s) ==
    IF s = <<>> THEN <<>>
    ELSE InsertAsc(s[Len(s)], StableSortAsc(SubSeq(s, 1, Len(s) - 1)))

\* sorted(values, key=..., reverse=True): the list is reversed, sorted stably in
\* ascending order and reversed again
sorted_reverse(s) == Reverse(StableSortAsc(Reverse(s)))

\* s[:limit]
SliceTo(s, limit) ==
    LET stop == IF limit < 0
                THEN (IF Len(s) + limit < 0 THEN 0 ELSE Len(s) + limit)
                ELSE (IF limit > Len(s) THEN Len(s) ELSE limit)
    IN SubSeq(s, 1, stop)

sorted_tickers(tickers, limit) == SliceTo(sorted_reverse(tickers), limit)

\* ------------------------------------------------------------------ inputs
Binance == <<"b","i","n","a","n","c","e">>
BinanceMixed == <<"B","i","n","a","n","c","e">>
KrakenUpper == <<"K","R","A","K","E","N">>
Dogecoinex == <<"d","o","g","e","c","o","i","n","e","x">>
PairBU == <<"b","/","u">>

ToolNames == {"list-exchanges", "get-price", "get-market-summary",
              "get-top-volumes", "get-balance"}

Opt(X) == {{}} \cup { {x} : x \in X }

\* the argument mapping with the given optional entries
MkArgs(e, s, l) ==
    [k \in ((IF e = {} THEN {} ELSE {"exchange"}) \cup
            (IF s = {} THEN {} ELSE {"symbol"}) \cup
            (IF l = {} THEN {} ELSE {"limit"})) |->
        CHOOSE x \in (IF k = "exchange" THEN e ELSE IF k = "symbol" THEN s ELSE l) : TRUE]

ArgMaps(E, S, L) == { MkArgs(e, s, l) : e \in Opt(E), s \in Opt(S), l \in Opt(L) }

ExchangeArgs == {PyStr(BinanceMixed), PyStr(KrakenUpper), PyStr(Dogecoinex), PyInt(42)}
SymbolArgs == {PyStr(PairBU)}
LimitArgs == {PyInt(-1), PyInt(0), PyInt(1)}

\* what a client may send when calls come one after the other
Inputs == [name : ToolNames, arguments : ArgMaps(ExchangeArgs, SymbolArgs, LimitArgs)]

\* what clients send in the interleaved runs
ConcInputs ==
    { [name |-> "list-exchanges", arguments |-> MkArgs({}, {}, {})] } \cup
    { [name |-> "get-price", arguments |-> MkArgs(e, {PyStr(PairBU)}, {})] :
        e \in Opt({PyStr(KrakenUpper)}) }

\* the ticker fetch_ticker(symbol) returns
TickerOf(symbol) == [k \in {"symbol", "last"} |->
                        IF k = "symbol" THEN PyStr(symbol) ELSE PyInt(7)]

\* the i-th ticker of a fetch_tickers() result: its baseVolume is missing, null or a number
VolChoices == {{}, {PyNone}} \cup { {PyInt(v)} : v \in 0..MaxVol }
MkTicker(i, vol) ==
    [k \in ({"symbol", "last"} \cup (IF vol = {} THEN {} ELSE {"baseVolume"})) |->
        IF k = "symbol" THEN PyInt(i)
        ELSE IF k = "last" THEN PyInt(7)
        ELSE CHOOSE x \in vol : TRUE]
TickerLists ==
    UNION { { [i \in 1..n |-> MkTicker(i, f[i])] : f \in [1..n -> VolChoices] }
            : n \in 0..MaxTickers }

\* ------------------------------------------------------------ the try block
ExchangeList == [i \in 1..Len(SUPPORTED_EXCHANGES) |-> upper(SUPPORTED_EXCHANGES[i].key)]
ListText == [kind |-> "Supported exchanges", lines |-> ExchangeList]

\* arguments.get("exchange", "binance")
exchange_id(a) == get(a, "exchange", PyStr(Binance))
\* arguments.get("symbol", "").upper()
symbol(a) == upper(get(a, "symbol", PyStr(<<>>)).v)
\* int(arguments.get("limit", 5))
limit(a) == get(a, "limit", PyInt(DefaultLimit)).v

\* except ccxt.BaseError as e: the only errors the handler converts to text
Except(e) ==
    IF e = "ccxt.BaseError"
    THEN Return(TextContent([kind |-> "Error accessing cryptocurrency data", error |-> e]))
    ELSE Raise(e)

\* The try block from its entry to the first await that may suspend (the fetch
\* call) or to its completion: next, the completion, the tables and the local.
TryEntry(n, a, cache, insts) ==
    IF n = "list-exchanges"
    THEN [next |-> "finally", comp |-> Return(TextContent(ListText)),
          cache |-> cache, insts |-> insts, exchange |-> 0, built |-> {}, raised |-> <<>>]
    ELSE IF exchange_id(a).type # "str"
    THEN [next |-> "finally", comp |-> Except("AttributeError"),
          cache |-> cache, insts |-> insts, exchange |-> 0, built |-> {},
          raised |-> <<"AttributeError">>]
    ELSE LET g == get_exchange(exchange_id(a).v, cache, insts) IN
         IF g.err # "none"
         THEN [next |-> "finally", comp |-> Except(g.err),
               cache |-> g.cache, insts |-> g.insts, exchange |-> 0, built |-> g.built,
               raised |-> <<g.err>>]
         ELSE IF n \in {"get-price", "get-market-summary", "get-top-volumes"}
         THEN [next |-> "fetch", comp |-> NoCompletion,
               cache |-> g.cache, insts |-> g.insts, exchange |-> g.inst, built |-> g.built,
               raised |-> <<>>]
         ELSE [next |-> "finally", comp |-> Except("ValueError: Unknown tool"),
               cache |-> g.cache, insts |-> g.insts, exchange |-> g.inst, built |-> g.built,
               raised |-> <<"ValueError: Unknown tool">>]

\* The try block after a fetch that returned: the text of the tool
PriceText(a, ticker) ==
    IF Len(split(symbol(a))) < 2
    THEN Except("IndexError")
    ELSE Return(TextContent([kind |-> "Current price", symbol |-> symbol(a),
                             exchange |-> upper(exchange_id(a).v),
                             last |-> ticker["last"], quote |-> split(symbol(a))[2]]))

SummaryText(a, ticker) ==
    Return(TextContent([kind |-> "Market summary", symbol |-> symbol(a),
                        data |-> format_ticker(ticker, exchange_id(a).v)]))

TopVolumesText(a, tickers) ==
    LET top == sorted_tickers(tickers, limit(a)) IN
    Return(TextContent([kind |-> "Top pairs by volume", limit |-> limit(a),
                        exchange |-> upper(exchange_id(a).v),
                        results |-> [i \in 1..Len(top) |->
                                        format_ticker(top[i], exchange_id(a).v)]]))

\* ------------------------------------------------------- the finally clause
\* next() of the dict-values iterator: a size change since its creation is an
\* error, the end of the entries stops it, otherwise it yields the entry at pos
IterNext(cache, it) ==
    IF Len(cache) # it.used THEN [kind |-> "error"]
    ELSE IF it.pos > Len(cache) THEN [kind |-> "stop"]
    ELSE [kind |-> "value", inst |-> cache[it.pos].inst,
          it |-> [used |-> it.used, pos |-> it.pos + 1]]

\* in-progress invocations record the instances the cache holds
Saw(h, t, cache) ==
    [u \in Tasks |->
        IF u = t \/ pc[u] \in {"fetch", "close"}
        THEN [h[u] EXCEPT !.saw = @ \cup CacheInsts(cache)]
        ELSE h[u]]

\* One turn of `for instance in exchange_instances.values(): await instance.close()`
\* followed, when the loop ends, by exchange_instances.clear(); comp is the
\* completion of the try/except part, which the clause lets through.
Cleanup(t, comp, cache, insts, it, h) ==
    LET r == IterNext(cache, it) IN
    /\ exchange' = [exchange EXCEPT ![t] = 0]
    /\ CASE r.kind = "value" ->
              /\ pc' = [pc EXCEPT ![t] = "close"]
              /\ closing' = [closing EXCEPT ![t] = r.inst]
              /\ iter' = [iter EXCEPT ![t] = r.it]
              /\ instances' = [insts EXCEPT ![r.inst].closeCalled = TRUE]
              /\ exchange_instances' = cache
              /\ completion' = [completion EXCEPT ![t] = comp]
              /\ hist' = Saw(h, t, cache)
         [] r.kind = "stop" ->
              /\ pc' = [pc EXCEPT ![t] = "done"]
              /\ closing' = [closing EXCEPT ![t] = 0]
              /\ iter' = [iter EXCEPT ![t] = NoIter]
              /\ instances' = insts
              /\ exchange_instances' = <<>>
              /\ completion' = [completion EXCEPT ![t] = comp]
              /\ hist' = Saw(h, t, cache)
         [] r.kind = "error" ->
              /\ pc' = [pc EXCEPT ![t] = "done"]
              /\ closing' = [closing EXCEPT ![t] = 0]
              /\ iter' = [iter EXCEPT ![t] = NoIter]
              /\ instances' = insts
              /\ exchange_instances' = cache
              /\ completion' = [completion EXCEPT ![t] = Raise("RuntimeError")]
              /\ hist' = Saw([h EXCEPT ![t].raised = Append(@, "RuntimeError")], t, cache)

Finally(t, comp, cache, insts, h) ==
    Cleanup(t, comp, cache, insts, [used |-> Len(cache), pos |-> 1], h)

\* ----------------------------------------------------------------- actions
Init ==
    /\ exchange_instances = <<>>
    /\ instances = <<>>
    /\ pc = [t \in Tasks |-> "idle"]
    /\ name = [t \in Tasks |-> ""]
    /\ arguments = [t \in Tasks |-> MkArgs({}, {}, {})]
    /\ exchange = [t \in Tasks |-> 0]
    /\ completion = [t \in Tasks |-> NoCompletion]
    /\ iter = [t \in Tasks |-> NoIter]
    /\ closing = [t \in Tasks |-> 0]
    /\ hist = [t \in Tasks |-> NoHist]

\* handle_call_tool(name, arguments) is entered and runs to its first await
handle_call_tool(t, in) ==
    /\ pc[t] = "idle"
    /\ LET e == TryEntry(in.name, in.arguments, exchange_instances, instances)
           h == [hist EXCEPT ![t] = [NoHist EXCEPT !.built = e.built, !.raised = e.raised]]
       IN /\ Len(e.insts) <= MaxInst
          /\ IF e.next = "fetch"
             THEN /\ pc' = [pc EXCEPT ![t] = "fetch"]
                  /\ name' = [name EXCEPT ![t] = in.name]
                  /\ arguments' = [arguments EXCEPT ![t] = in.arguments]
                  /\ exchange' = [exchange EXCEPT ![t] = e.exchange]
                  /\ completion' = [completion EXCEPT ![t] = NoCompletion]
                  /\ exchange_instances' = e.cache
                  /\ instances' = e.insts
                  /\ hist' = Saw([h EXCEPT ![t].fetches = 1], t, e.cache)
                  /\ UNCHANGED <<iter, closing>>
             ELSE /\ Finally(t, e.comp, e.cache, e.insts, h)
                  /\ name' = [name EXCEPT ![t] = in.name]
                  /\ arguments' = [arguments EXCEPT ![t] = in.arguments]

\* await exchange.fetch_ticker(symbol) / fetch_tickers() returns; the tool's text
\* is built and the handler goes on to its finally clause
FetchOk(t) ==
    /\ pc[t] = "fetch"
    /\ \E tickers \in (IF name[t] = "get-top-volumes" THEN TickerLists ELSE {<<>>}) :
         LET a == arguments[t]
             comp == IF name[t] = "get-price" THEN PriceText(a, TickerOf(symbol(a)))
                     ELSE IF name[t] = "get-market-summary"
                     THEN SummaryText(a, TickerOf(symbol(a)))
                     ELSE TopVolumesText(a, tickers)
             h == [hist EXCEPT ![t].tickers = tickers,
                               ![t].raised = IF comp.kind = "raise"
                                             THEN Append(@, comp.exc) ELSE @]
         IN Finally(t, comp, exchange_instances, instances, h)
    /\ UNCHANGED <<name, arguments>>

\* the awaited fetch raises a ccxt.BaseError
FetchFail(t) ==
    /\ pc[t] = "fetch"
    /\ Finally(t, Except("ccxt.BaseError"), exchange_instances, instances,
               [hist EXCEPT ![t].raised = Append(@, "ccxt.BaseError")])
    /\ UNCHANGED <<name, arguments>>

\* await instance.close() returns: the instance is closed, the loop goes on
CloseOk(t) ==
    /\ pc[t] = "close"
    /\ Cleanup(t, completion[t], exchange_instances,
               [instances EXCEPT ![closing[t]].live = FALSE], iter[t], hist)
    /\ UNCHANGED <<name, arguments>>

\* await instance.close() raises: the error leaves the finally clause, and the
\* handler, in place of the pending completion; clear() is not reached
CloseFail(t) ==
    /\ pc[t] = "close"
    /\ pc' = [pc EXCEPT ![t] = "done"]
    /\ completion' = [completion EXCEPT ![t] = Raise("error in close()")]
    /\ hist' = [hist EXCEPT ![t].raised = Append(@, "error in close()")]
    /\ closing' = [closing EXCEPT ![t] = 0]
    /\ iter' = [iter EXCEPT ![t] = NoIter]
    /\ UNCHANGED <<exchange_instances, instances, name, arguments, exchange>>

\* the caller takes the outcome of the invocation; the task is free again
Finish(t) ==
    /\ pc[t] = "done"
    /\ pc' = [pc EXCEPT ![t] = "idle"]
    /\ name' = [name EXCEPT ![t] = ""]
    /\ arguments' = [arguments EXCEPT ![t] = MkArgs({}, {}, {})]
    /\ completion' = [completion EXCEPT ![t] = NoCompletion]
    /\ hist' = [hist EXCEPT ![t] = NoHist]
    /\ UNCHANGED <<exchange_instances, instances, exchange, iter, closing>>

\* calls come one after the other: one task, entered again only when it is over
Call(t) == \E in \in Inputs : handle_call_tool(t, in)

Next ==
    \E t \in SeqTasks :
        Call(t) \/ FetchOk(t) \/ FetchFail(t) \/ CloseOk(t) \/ CloseFail(t) \/ Finish(t)

Spec == Init /\ [][Next]_vars

\* several invocations in progress, interleaving at their await points
CallConc(t) == \E in \in ConcInputs : handle_call_tool(t, in)

NextConc ==
    \E t \in Tasks :
        CallConc(t) \/ FetchOk(t) \/ FetchFail(t) \/ CloseOk(t) \/ CloseFail(t) \/ Finish(t)

SpecConc == Init /\ [][NextConc]_vars

\* ------------------------------------------------------------------ claims
Over(t) == pc[t] = "done"
Returned(t) == Over(t) /\ completion[t].kind = "return"
Raised(t) == Over(t) /\ completion[t].kind = "raise"

\* one text content block that carries an error message
IsErrorText(c) ==
    /\ c.kind = "return"
    /\ Len(c.value) = 1
    /\ c.value[1].type = "text"
    /\ c.value[1].text.kind = "Error accessing cryptocurrency data"

DataTools == {"get-price", "get-market-summary", "get-top-volumes"}
KnownTools == DataTools \cup {"list-exchanges"}

\* the exchange argument is a string whose lowercase form is no registry key
UnsupportedArg(a) ==
    /\ exchange_id(a).type = "str"
    /\ lower(exchange_id(a).v) \notin RegistryKeys
\* the exchange argument is absent or names a registry key
SupportedArg(a) ==
    /\ exchange_id(a).type = "str"
    /\ lower(exchange_id(a).v) \in RegistryKeys

\* C1: when an invocation of handle_call_tool is over, however it ended, the
\* cache exchange_instances is empty.
C1_CacheEmptyAfterCall ==
    \A t \in Tasks : Over(t) => exchange_instances = <<>>

\* C2: get-price, get-market-summary or get-top-volumes with an unsupported
\* exchange ends with a returned error text block, never with a raised exception.
C2_UnsupportedExchangeReturnsText ==
    \A t \in Tasks :
        (Over(t) /\ name[t] \in DataTools /\ UnsupportedArg(arguments[t]))
            => IsErrorText(completion[t])

\* C3: an unrecognised tool name (with a supported or absent exchange) ends with
\* a returned error text block, never with a raised exception.
C3_UnknownToolReturnsText ==
    \A t \in Tasks :
        (Over(t) /\ name[t] \notin KnownTools /\ SupportedArg(arguments[t]))
            => IsErrorText(completion[t])

\* C4: whenever the fetch call of an invocation failed with a library error, the
\* invocation returns exactly one error text block and raises nothing.
C4_FetchErrorReturnsText ==
    \A t \in Tasks :
        (Over(t) /\ \E i \in 1..Len(hist[t].raised) : hist[t].raised[i] = "ccxt.BaseError")
            => IsErrorText(completion[t])

\* the sort key of a formatted entry, and its place in the fetch order
EntryKey(e) == IF e.volume.type = "int" THEN e.volume.v ELSE 0
EntryPos(e) == e.symbol.v

\* C5: for every limit N, also 0 and negative, and every ticker set, the response
\* of get-top-volumes holds at most N entries (none when N is negative), which
\* are the entries of highest volume in descending order, equal volumes in
\* fetch order, a missing or null volume counting as 0.
C5_TopVolumes ==
    \A t \in Tasks :
        (Returned(t) /\ name[t] = "get-top-volumes" /\ hist[t].fetches > 0
           /\ completion[t].value[1].text.kind = "Top pairs by volume")
        => LET res == completion[t].value[1].text.results
               N == limit(arguments[t])
               all == hist[t].tickers
               chosen == { EntryPos(res[i]) : i \in 1..Len(res) }
           IN /\ Len(res) <= (IF N < 0 THEN 0 ELSE N)
              /\ \A i, j \in 1..Len(res) :
                    i < j => \/ EntryKey(res[i]) > EntryKey(res[j])
                             \/ /\ EntryKey(res[i]) = EntryKey(res[j])
                                /\ EntryPos(res[i]) < EntryPos(res[j])
              /\ \A i \in 1..Len(res) :
                    /\ EntryPos(res[i]) \in 1..Len(all)
                    /\ EntryKey(res[i]) = VolumeKey(all[EntryPos(res[i])])
              /\ \A p \in (1..Len(all)) \ chosen : \A q \in chosen :
                    \/ VolumeKey(all[p]) < VolumeKey(all[q])
                    \/ VolumeKey(all[p]) = VolumeKey(all[q]) /\ q < p

\* C6: when an invocation is over, on whatever path, close() has been called on
\* every instance it constructed or found in the cache, and no instance is
\* left open outside the cache.
C6_EveryInstanceClosed ==
    \A t \in Tasks :
        Over(t) =>
            /\ \A i \in hist[t].built \cup hist[t].saw : instances[i].closeCalled
            /\ \A i \in 1..Len(instances) :
                   instances[i].live => i \in CacheInsts(exchange_instances)

\* C7: with invocations interleaving at their await points, the cleanup of one
\* never closes or removes an instance another invocation obtained from
\* get_exchange and still uses, and never fails because the cache changed
\* during its loop.
C7_NoCrossCallRace ==
    /\ \A u \in Tasks :
          pc[u] = "fetch" =>
              /\ exchange[u] \in CacheInsts(exchange_instances)
              /\ \A t \in Tasks \ {u} : pc[t] = "close" => closing[t] # exchange[u]
    /\ \A t \in Tasks : Raised(t) => completion[t].exc # "RuntimeError"

\* the registry keys, uppercased, in registry order
UppercaseKeys == <<
    <<"B","I","N","A","N","C","E">>, <<"C","O","I","N","B","A","S","E">>,
    <<"K","R","A","K","E","N">>, <<"K","U","C","O","I","N">>, <<"F","T","X">>,
    <<"H","U","O","B","I">>, <<"B","I","T","F","I","N","E","X">>,
    <<"B","Y","B","I","T">>, <<"O","K","X">>, <<"M","E","X","C">> >>

\* C8: list-exchanges, whatever its arguments, returns one text block listing
\* exactly the registry keys, uppercased, in registry order; it constructs no
\* instance and makes no fetch call.
C8_ListExchanges ==
    \A t \in Tasks :
        (Over(t) /\ name[t] = "list-exchanges") =>
            /\ completion[t].kind = "return"
            /\ Len(completion[t].value) = 1
            /\ completion[t].value[1].type = "text"
            /\ completion[t].value[1].text.lines = UppercaseKeys
            /\ hist[t].built = {}
            /\ hist[t].fetches = 0

\* C9: during a tool call there is at most one live (constructed, not yet
\* closed) instance per exchange identifier: the cache holds one entry per
\* key, every live instance is the cached one of its key, and the instance
\* get_exchange handed to the call is the cache's entry for the lowercased
\* identifier, of the registry's class, constructed by this call only if the
\* call did not find it cached.
C9_OneLiveInstancePerExchange ==
    /\ \A i, j \in 1..Len(instances) :
          (i # j /\ instances[i].live /\ instances[j].live)
              => instances[i].key # instances[j].key
    /\ \A i, j \in 1..Len(exchange_instances) :
          i # j => exchange_instances[i].key # exchange_instances[j].key
    /\ \A t \in Tasks :
          pc[t] = "fetch" =>
              LET k == lower(exchange_id(arguments[t]).v) IN
              /\ k \in CacheKeys(exchange_instances)
              /\ exchange[t] = CacheLookup(exchange_instances, k)
              /\ instances[exchange[t]].key = k
              /\ instances[exchange[t]].cls = ClassOf(k)
              /\ hist[t].built \subseteq {exchange[t]}

\* C9 witness: a call whose identifier differs in letter case from the key was
\* handed the instance an earlier call left in the cache.
C9_Witness ==
    \E t \in Tasks :
        /\ pc[t] = "fetch"
        /\ exchange_id(arguments[t]) = PyStr(BinanceMixed)
        /\ hist[t].built = {}
        /\ instances[exchange[t]].live

\* C10: an invocation (not list-exchanges) with an unsupported exchange
\* constructs no instance and makes no fetch call, its outcome is the
\* unsupported-exchange error even when the tool name is unknown too, and the
\* keys of the cache are always lowercase registry keys.
C10_ExchangeValidatedFirst ==
    /\ CacheKeys(exchange_instances) \subseteq RegistryKeys
    /\ \A t \in Tasks :
          (Over(t) /\ name[t] # "list-exchanges" /\ UnsupportedArg(arguments[t])) =>
              /\ hist[t].built = {}
              /\ hist[t].fetches = 0
              /\ completion[t] = Raise("ValueError: Unsupported exchange")

====
